---- MODULE Spec2Model ----
(***************************************************************************)
(* A model of balparda/baselib's base.py: the binary object codec          *)
(* (BinSerialize / BinDeSerialize), the Timer context it wraps every stage *)
(* in, the Encrypt / Decrypt wrappers, BlockEncoder256 and its block and   *)
(* hex methods, DeriveKeyFromStaticPassword and the Humanized* formatters. *)
(*                                                                         *)
(* Bytes are sequences of 0..255.  Python values are tagged records.  The  *)
(* library calls the code makes (pickle, bz2, base64) are modelled by what *)
(* they do to bytes, each with an inverse that can fail.  bin_fernet is a  *)
(* module of the repository that base.py imports; it is modelled from the  *)
(* specification's description of the authenticated token.                 *)
(***************************************************************************)
EXTENDS Integers, Sequences, FiniteSets, Bags, TLC

(***************************************************************************)
(* Python's None, and the outcome of a call that may raise.                *)
(***************************************************************************)
None == [t |-> "None"]

Ok(v) == [ok |-> TRUE, v |-> v]

Raise(e) == [ok |-> FALSE, exc |-> e]

Last(s) == s[Len(s)]

(* The sum of a sequence of naturals: the size of the bag that holds       *)
(* index i as many times as s[i].                                          *)
SumSeq(s) == BagCardinality([i \in {j \in DOMAIN s : s[j] > 0} |-> s[i]])

(***************************************************************************)
(* base64.urlsafe_b64decode.  A text is a sequence of sextets 0..63, with  *)
(* 64 for the padding character '='.  Four sextets give three bytes; a     *)
(* padded last group gives one or two.  A text whose length is not a       *)
(* multiple of four raises binascii.Error, a ValueError.                   *)
(***************************************************************************)
B64Groups(text) ==
  LET pad == (IF Len(text) > 0 /\ text[Len(text)] = 64 THEN 1 ELSE 0)
             + (IF Len(text) > 1 /\ text[Len(text) - 1] = 64 THEN 1 ELSE 0)
  IN  [k \in 1..(3 * (Len(text) \div 4) - pad) |->
         LET g == 4 * ((k - 1) \div 3)
             a == text[g + 1]
             b == text[g + 2]
             c == text[g + 3]
             d == text[g + 4]
         IN  CASE (k - 1) % 3 = 0 -> (a * 4 + b \div 16) % 256
               [] (k - 1) % 3 = 1 -> ((b % 16) * 16 + c \div 4) % 256
               [] OTHER -> ((c % 4) * 64 + d) % 256]

B64Decode(text) ==
  IF Len(text) % 4 # 0 THEN Raise("ValueError")
  ELSE IF \E i \in 1..Len(text) :
            /\ text[i] = 64
            /\ \/ i < Len(text) - 1
               \/ (i = Len(text) - 1 /\ text[Len(text)] # 64)
       THEN Raise("ValueError")
  ELSE Ok(B64Groups(text))

(***************************************************************************)
(* pickle.dumps(obj, protocol=-1): protocol 5.  PROTO 5, the opcodes of    *)
(* the value, STOP; opcodes of four bytes or more are wrapped in a FRAME   *)
(* with an 8-byte little-endian length, and a tuple is MEMOIZEd.  A value  *)
(* that cannot be pickled (a lambda) raises PicklingError.                 *)
(***************************************************************************)
PyInt(n) == [t |-> "int", v |-> n]

PyTuple(a, b) == [t |-> "tuple", a |-> a, b |-> b]

PyLambda == [t |-> "lambda"]

RECURSIVE Picklable(_)
Picklable(obj) ==
  CASE obj.t = "None" -> TRUE
    [] obj.t = "int" -> obj.v \in 0..255
    [] obj.t = "tuple" -> Picklable(obj.a) /\ Picklable(obj.b)
    [] OTHER -> FALSE

RECURSIVE PickleOps(_)
PickleOps(obj) ==
  CASE obj.t = "None" -> <<78>>
    [] obj.t = "int" -> <<75, obj.v>>
    [] obj.t = "tuple" -> PickleOps(obj.a) \o PickleOps(obj.b) \o <<134, 148>>

PickleDumps(obj) ==
  IF ~Picklable(obj) THEN Raise("PicklingError")
  ELSE LET body == PickleOps(obj) \o <<46>>
           frame == IF Len(body) >= 4
                    THEN <<149, Len(body), 0, 0, 0, 0, 0, 0, 0>>
                    ELSE <<>>
       IN  Ok(<<128, 5>> \o frame \o body)

(***************************************************************************)
(* pickle.loads: the unpickler's stack machine over the same opcodes.      *)
(* Running out of bytes, an unknown opcode, a protocol above 5, a frame    *)
(* longer than the data or a stack underflow raise UnpicklingError.        *)
(***************************************************************************)
RECURSIVE PickleLoad(_, _, _)
PickleLoad(s, i, stack) ==
  IF i > Len(s) THEN Raise("UnpicklingError")
  ELSE CASE s[i] = 128 ->
              IF i + 1 > Len(s) \/ s[i + 1] > 5 THEN Raise("UnpicklingError")
              ELSE PickleLoad(s, i + 2, stack)
         [] s[i] = 149 ->
              IF i + 8 > Len(s) THEN Raise("UnpicklingError")
              ELSE IF s[i + 1] > Len(s) - (i + 8)
                      \/ \E j \in (i + 2)..(i + 8) : s[j] # 0
                   THEN Raise("UnpicklingError")
              ELSE PickleLoad(s, i + 9, stack)
         [] s[i] = 78 -> PickleLoad(s, i + 1, Append(stack, None))
         [] s[i] = 75 ->
              IF i + 1 > Len(s) THEN Raise("UnpicklingError")
              ELSE PickleLoad(s, i + 2, Append(stack, PyInt(s[i + 1])))
         [] s[i] = 134 ->
              IF Len(stack) < 2 THEN Raise("UnpicklingError")
              ELSE PickleLoad(s, i + 1,
                     Append(SubSeq(stack, 1, Len(stack) - 2),
                            PyTuple(stack[Len(stack) - 1], stack[Len(stack)])))
         [] s[i] = 148 ->
              IF stack = <<>> THEN Raise("UnpicklingError")
              ELSE PickleLoad(s, i + 1, stack)
         [] s[i] = 46 ->
              IF stack = <<>> THEN Raise("UnpicklingError")
              ELSE Ok(Last(stack))
         [] OTHER -> Raise("UnpicklingError")

PickleLoads(s) == PickleLoad(s, 1, <<>>)

(***************************************************************************)
(* bz2.compress(data, 9) and bz2.decompress.  The stream is the header     *)
(* "BZh9", the run-length coding of the data (count, byte) and a one-byte  *)
(* checksum of the data.  Decompressing empty input gives empty output;    *)
(* a stream without the header, with a broken run or with a wrong          *)
(* checksum raises OSError.                                                *)
(***************************************************************************)
Bz2Header == <<66, 90, 104, 57>>

RECURSIVE RunLength(_, _)
RunLength(s, i) ==
  IF i > Len(s) \/ s[i] # s[1] THEN i - 1 ELSE RunLength(s, i + 1)

RECURSIVE RleEncode(_)
RleEncode(s) ==
  IF s = <<>> THEN <<>>
  ELSE LET n == RunLength(s, 1)
       IN  <<n, s[1]>> \o RleEncode(SubSeq(s, n + 1, Len(s)))

RECURSIVE RleDecode(_)
RleDecode(r) ==
  IF r = <<>> THEN <<>>
  ELSE [i \in 1..r[1] |-> r[2]] \o RleDecode(SubSeq(r, 3, Len(r)))

RleWellFormed(r) ==
  /\ Len(r) % 2 = 0
  /\ \A i \in 1..Len(r) : (i % 2 = 1) => r[i] >= 1

Bz2Crc(s) == SumSeq(s) % 256

Bz2Compress(s) == Bz2Header \o RleEncode(s) \o <<Bz2Crc(s)>>

Bz2Decompress(c) ==
  IF c = <<>> THEN Ok(<<>>)
  ELSE IF Len(c) < Len(Bz2Header) + 1 \/ SubSeq(c, 1, Len(Bz2Header)) # Bz2Header
       THEN Raise("OSError")
  ELSE LET body == SubSeq(c, Len(Bz2Header) + 1, Len(c) - 1)
       IN  IF ~RleWellFormed(body) THEN Raise("OSError")
           ELSE IF Bz2Crc(RleDecode(body)) # Last(c) THEN Raise("OSError")
           ELSE Ok(RleDecode(body))

(***************************************************************************)
(* Key material.  A Fernet key is the URL-safe base64 text of 32 bytes:    *)
(* KeyForce is the key of test_BasicCrypto, KeyLuke the derived key of     *)
(* password 'luke' that the test uses as the wrong key, KeyCut the test's  *)
(* crypto_key[10:] (not decodable) and KeyShort the text of the first 16   *)
(* bytes of KeyForce (decodable, too short).                               *)
(***************************************************************************)
KeyForce ==
  <<11, 17, 45, 48, 54, 0, 56, 20, 61, 15, 0, 45, 34, 33, 20, 40, 48, 57, 41,
    63, 30, 16, 30, 49, 58, 8, 24, 10, 12, 59, 39, 20, 40, 15, 37, 31, 53,
    31, 36, 10, 15, 32, 28, 64>>

KeyLuke ==
  <<52, 43, 2, 34, 50, 1, 43, 42, 22, 40, 36, 23, 61, 20, 13, 1, 34, 24, 51,
    36, 47, 33, 34, 61, 25, 44, 35, 40, 8, 50, 6, 30, 20, 29, 45, 36, 27,
    15, 0, 35, 51, 26, 24, 64>>

KeyCut == SubSeq(KeyForce, 11, Len(KeyForce))

KeyShort == SubSeq(KeyForce, 1, 22) \o <<64, 64>>

(***************************************************************************)
(* bin_fernet.BinaryFernet(key): the key text must decode to exactly 32    *)
(* bytes, else ValueError; the first half signs, the second encrypts.      *)
(***************************************************************************)
BinaryFernet(key) ==
  LET raw == B64Decode(key)
  IN  IF ~raw.ok THEN Raise("ValueError")
      ELSE IF Len(raw.v) # 32 THEN Raise("ValueError")
      ELSE Ok([signing |-> SubSeq(raw.v, 1, 16),
               encryption |-> SubSeq(raw.v, 17, 32)])

(***************************************************************************)
(* The authentication tag: a keyed hash of the signing key and the signed  *)
(* bytes, two bytes wide.  MacFold(h, s) folds s into h byte after byte,   *)
(* h * 257 + byte + 1 modulo 65521 at each; it is written as the           *)
(* polynomial that the fold amounts to, over a table of the powers of 257. *)
(***************************************************************************)
MulMod(x, y) ==
  (((x * (y \div 256)) % 65521) * 256 + x * (y % 256)) % 65521

RECURSIVE MacPow(_)
MacPow(k) ==
  IF k = 0 THEN 1
  ELSE IF k = 1 THEN 257
  ELSE MulMod(MacPow(k \div 2), MacPow(k - k \div 2))

MacPowers == [k \in 0..127 |-> MacPow(k)]

MacPoly(s) ==
  SumSeq([i \in 1..Len(s) |-> MulMod(s[i] + 1, MacPowers[Len(s) - i])])
    % 65521

MacFold(h, s) == (MulMod(h, MacPowers[Len(s)]) + MacPoly(s)) % 65521

Mac(signing, msg) ==
  LET h == MacFold(MacFold(0, signing), msg)
  IN  <<h \div 256, h % 256>>

(***************************************************************************)
(* The cipher: each byte is chained to the one before it, starting from    *)
(* the nonce, under the encryption key: c[i] = p[i] + c[i-1] + ek, which   *)
(* is the running sum of the plaintext plus the nonce plus i times ek.     *)
(***************************************************************************)
CipherSeal(ek, prev, p) ==
  [i \in 1..Len(p) |-> (SumSeq(SubSeq(p, 1, i)) + prev + i * ek) % 256]

CipherOpen(ek, prev, c) ==
  [i \in 1..Len(c) |-> (c[i] - (IF i = 1 THEN prev ELSE c[i - 1]) - ek) % 256]

(***************************************************************************)
(* BinaryFernet.encrypt / decrypt.  A token is the version byte 0x80, the  *)
(* creation timestamp, the nonce, the ciphertext and the tag over all of   *)
(* these.  Opening fails with InvalidToken when the token is too short,    *)
(* the version is not 0x80 or the tag does not verify; nothing is          *)
(* decrypted before the tag has verified.                                  *)
(***************************************************************************)
FernetEncrypt(f, plaintext, ts, iv) ==
  LET ek == SumSeq(f.encryption) % 256
      signed == <<128, ts % 256, iv>> \o CipherSeal(ek, iv, plaintext)
  IN  signed \o Mac(f.signing, signed)

FernetDecrypt(f, token) ==
  IF Len(token) < 5 THEN Raise("InvalidToken")
  ELSE IF token[1] # 128 THEN Raise("InvalidToken")
  ELSE LET signed == SubSeq(token, 1, Len(token) - 2)
           tag == SubSeq(token, Len(token) - 1, Len(token))
           ek == SumSeq(f.encryption) % 256
       IN  IF Mac(f.signing, signed) # tag THEN Raise("InvalidToken")
           ELSE Ok(CipherOpen(ek, token[3], SubSeq(signed, 4, Len(signed))))

(***************************************************************************)
(* Encrypt / Decrypt: the wrappers of base.py.  ts is the clock reading    *)
(* and iv the random nonce that encrypt draws.                             *)
(***************************************************************************)
Encrypt(plaintext, key, ts, iv) ==
  LET f == BinaryFernet(key)
  IN  IF ~f.ok THEN f ELSE Ok(FernetEncrypt(f.v, plaintext, ts, iv))

(* Faulty variant of Decrypt: a token that does not verify opens as b''.    *)
Decrypt_FailOpen(ciphertext, key) ==
  LET f == BinaryFernet(key)
      r == IF ~f.ok THEN f ELSE FernetDecrypt(f.v, ciphertext)
  IN  IF ~f.ok \/ r.ok THEN r ELSE Ok(<<>>)

Decrypt(ciphertext, key) ==
  LET f == BinaryFernet(key)
  IN  IF ~f.ok THEN f ELSE FernetDecrypt(f.v, ciphertext)

(***************************************************************************)
(* An optional value: <<>> is Python's None, <<x>> is x.                   *)
(***************************************************************************)
Absent == <<>>

Some(x) == <<x>>

(***************************************************************************)
(* HumanizedBytes, HumanizedDecimal and HumanizedSeconds.  A readable      *)
(* string is the pair of the number printed, in hundredths where the       *)
(* format has decimals, and the unit.  A negative input raises             *)
(* AttributeError.  Clock readings are whole seconds.                      *)
(*                                                                         *)
(* A Python int has no width.  A byte size is kept as the pair of its      *)
(* quotient and remainder by 1024 * 1024, so that sizes of 1024^4 and more *)
(* can be written: Wide(q, r) is q * 1024^2 + r, Size(n) the pair of n.    *)
(***************************************************************************)
Hundredths(n, unit) == (n * 100 + unit \div 2) \div unit

Wide(q, r) == [q |-> q, r |-> r]

Size(n) == Wide(n \div (1024 * 1024), n % (1024 * 1024))

(* 100 * n as a pair. *)
Centi(n) ==
  Wide(n.q * 100 + (n.r * 100) \div (1024 * 1024),
       (n.r * 100) % (1024 * 1024))

(* Faulty variant of HumanizedBytes: 1024 itself is still printed in 'b'.   *)
HumanizedBytes_Inclusive(inp_sz) ==
  IF inp_sz.q < 0 THEN Raise("AttributeError")
  ELSE IF inp_sz.q = 0 /\ inp_sz.r <= 1024 THEN Ok(<<inp_sz.r, "b">>)
  ELSE IF inp_sz.q = 0 THEN Ok(<<Hundredths(inp_sz.r, 1024), "kb">>)
  ELSE IF inp_sz.q < 1024
       THEN Ok(<<Centi(inp_sz).q
                 + (IF Centi(inp_sz).r >= 512 * 1024 THEN 1 ELSE 0), "Mb">>)
  ELSE IF inp_sz.q < 1024 * 1024
       THEN Ok(<<(Centi(inp_sz).q + 512) \div 1024, "Gb">>)
  ELSE Ok(<<(inp_sz.q \div (1024 * 1024)) * 100
            + Hundredths(inp_sz.q % (1024 * 1024), 1024 * 1024), "Tb">>)

HumanizedBytes(inp_sz) ==
  IF inp_sz.q < 0 THEN Raise("AttributeError")
  ELSE IF inp_sz.q = 0 /\ inp_sz.r < 1024 THEN Ok(<<inp_sz.r, "b">>)
  ELSE IF inp_sz.q = 0 THEN Ok(<<Hundredths(inp_sz.r, 1024), "kb">>)
  ELSE IF inp_sz.q < 1024
       THEN Ok(<<Centi(inp_sz).q
                 + (IF Centi(inp_sz).r >= 512 * 1024 THEN 1 ELSE 0), "Mb">>)
  ELSE IF inp_sz.q < 1024 * 1024
       THEN Ok(<<(Centi(inp_sz).q + 512) \div 1024, "Gb">>)
  ELSE Ok(<<(inp_sz.q \div (1024 * 1024)) * 100
            + Hundredths(inp_sz.q % (1024 * 1024), 1024 * 1024), "Tb">>)

HumanizedDecimal(inp_sz) ==
  IF inp_sz < 0 THEN Raise("AttributeError")
  ELSE IF inp_sz < 1000 THEN Ok(<<inp_sz, "">>)
  ELSE IF inp_sz < 1000 * 1000 THEN Ok(<<Hundredths(inp_sz, 1000), "k">>)
  ELSE IF inp_sz < 1000 * 1000 * 1000
       THEN Ok(<<Hundredths(inp_sz \div 1000, 1000), "M">>)
  ELSE IF inp_sz \div 1000 < 1000 * 1000 * 1000
       THEN Ok(<<Hundredths(inp_sz \div (1000 * 1000), 1000), "G">>)
  ELSE Ok(<<Hundredths(inp_sz \div (1000 * 1000 * 1000), 1000), "T">>)

HumanizedSeconds(inp_secs) ==
  IF inp_secs = 0 THEN Ok(<<0, "secs">>)
  ELSE IF inp_secs < 0 THEN Raise("AttributeError")
  ELSE IF inp_secs < 60 THEN Ok(<<inp_secs * 100, "secs">>)
  ELSE IF inp_secs < 60 * 60 THEN Ok(<<Hundredths(inp_secs, 60), "mins">>)
  ELSE IF inp_secs < 24 * 60 * 60
       THEN Ok(<<Hundredths(inp_secs, 60 * 60), "hours">>)
  ELSE Ok(<<Hundredths(inp_secs, 24 * 60 * 60), "days">>)

(***************************************************************************)
(* Timer.  _start and _end are optional clock readings; `not self._start`  *)
(* is true of None and of a reading of 0.  partial stores the end time     *)
(* and formats the delta; __exit__ reads partial.                          *)
(***************************************************************************)
Timer == [start |-> Absent, end |-> Absent]

TimerEnter(tm, t) == [tm EXCEPT !.start = Some(t)]

Falsy(opt) == opt = Absent \/ opt[1] = 0

TimerDelta(tm) ==
  IF Falsy(tm.start) \/ Falsy(tm.end) THEN Raise("Error")
  ELSE Ok(tm.end[1] - tm.start[1])

TimerReadable(tm) ==
  LET d == TimerDelta(tm)
  IN  IF ~d.ok THEN d ELSE HumanizedSeconds(d.v)

(* Faulty variant of TimerPartial: the end time is not stored.             *)
TimerPartial_Unstored(tm, t) == tm

TimerPartial(tm, t) == [tm EXCEPT !.end = Some(t)]

(***************************************************************************)
(* Leaving `with Timer() as tm:` at clock reading t with the block's       *)
(* outcome: __exit__ reads partial, and an error it raises replaces the    *)
(* block's outcome; else the block's value or exception goes on.           *)
(***************************************************************************)
TimerExit(tm, t, outcome) ==
  LET r == TimerReadable(TimerPartial(tm, t))
  IN  IF ~r.ok THEN r ELSE outcome

(***************************************************************************)
(* The state.  now is the wall clock that time.time() reads; fs maps each  *)
(* path to what is there; handles is the set of open file objects; call    *)
(* holds, per calling thread, the frame of the call it is running or has   *)
(* last finished.                                                          *)
(***************************************************************************)
VARIABLES now, fs, handles, call

vars == <<now, fs, handles, call>>

MaxTime == 2

Procs == {"main", "peer"}

Paths == {"f", "d"}

Objects == {PyInt(7), PyTuple(PyInt(7), None), PyLambda}

OptPaths == {Absent} \cup {Some(path) : path \in Paths}

CodecKeys == {Absent, Some(KeyForce), Some(KeyCut)}

CryptoKeys == {KeyForce, KeyLuke, KeyCut, KeyShort}

Plaintexts == {<<>>, <<116, 104, 101>>}

Nonces == {17, 99}

(***************************************************************************)
(* A call frame: the arguments, the locals of BinSerialize and             *)
(* BinDeSerialize, the outcome once the call has ended, and a record of    *)
(* what ran: trace lists the stages invoked in order, failed the stage     *)
(* that raised with its exception, logs the log records emitted, before    *)
(* what was at file_path when the call began.  origin and tamper say       *)
(* where the caller took the input bytes from.                             *)
(***************************************************************************)
Frame(op) ==
  [op |-> op, pc |-> "done", obj |-> None, data |-> Absent,
   file_path |-> Absent, compress |-> FALSE, key |-> Absent,
   origin |-> Absent, tamper |-> "none", self |-> Absent,
   s_obj |-> Absent, c_obj |-> Absent, e_obj |-> Absent,
   tm_pickle |-> Timer, tm_compress |-> Timer, tm_crypto |-> Timer,
   tm_io |-> Timer, before |-> Absent,
   ret |-> Absent, failed |-> Absent, trace |-> <<>>, logs |-> <<>>]

(***************************************************************************)
(* The end of a call: it returns a value or raises.  The Timer objects of  *)
(* the frame are gone with it.                                             *)
(***************************************************************************)
Ended(c, outcome) ==
  [c EXCEPT !.pc = "done", !.ret = Some(outcome),
            !.tm_pickle = Timer, !.tm_compress = Timer, !.tm_crypto = Timer,
            !.tm_io = Timer]

Return(c, v) == Ended(c, Ok(v))

Fail(c, exc) == Ended(c, Raise(exc))

(***************************************************************************)
(* Records in the frame that the block of `stage` raised.                  *)
(***************************************************************************)
Blamed(c, stage, body) ==
  IF body.ok THEN c ELSE [c EXCEPT !.failed = Some(<<stage, body.exc>>)]

(***************************************************************************)
(* The files.  A path holds nothing, a file's bytes, or a directory;       *)
(* os.path.exists is true of the last two and open() of a directory        *)
(* raises OSError.  open(path, 'wb') creates or truncates the file.        *)
(* Written bytes replace the file's bytes from offset 0 on.                *)
(***************************************************************************)
NoFile == [kind |-> "absent", bytes |-> <<>>]

File(bytes) == [kind |-> "file", bytes |-> bytes]

Directory == [kind |-> "dir", bytes |-> <<>>]

Exists(path) == fs[path].kind # "absent"

(* Faulty variant of OpenTruncate: the file keeps its old bytes.            *)
OpenTruncate_Keep(path) == [fs EXCEPT ![path] = File(fs[path].bytes)]

OpenTruncate(path) == [fs EXCEPT ![path] = File(<<>>)]

Overlay(old, bytes) ==
  bytes \o (IF Len(old) > Len(bytes) THEN SubSeq(old, Len(bytes) + 1, Len(old))
            ELSE <<>>)

WriteBytes(path, bytes) ==
  [fs EXCEPT ![path] = File(Overlay(fs[path].bytes, bytes))]

Handle(p, path, mode) == [proc |-> p, path |-> path, mode |-> mode]

(* Faulty variant of CloseFile: the file is closed only after a success.   *)
CloseFile_Unscoped(p, path, mode, body) ==
  IF body.ok THEN handles \ {Handle(p, path, mode)} ELSE handles

(***************************************************************************)
(* The end of `with open(...) as file_obj:` closes the file, whatever the  *)
(* outcome of the block's body.                                            *)
(***************************************************************************)
CloseFile(p, path, mode, body) == handles \ {Handle(p, path, mode)}

Init ==
  /\ now = 1
  /\ fs = [path \in Paths |-> IF path = "d" THEN Directory ELSE NoFile]
  /\ handles = {}
  /\ call = [p \in Procs |-> Frame("idle")]

(***************************************************************************)
(* The wall clock, time.time(), as Spec takes it: it reads a positive      *)
(* number and moves on between any two steps, never back.  The Timer       *)
(* operators above are written for any reading, so that a specification    *)
(* whose clock steps back or reads zero can drive them too.                *)
(***************************************************************************)
Tick ==
  /\ now < MaxTime
  /\ now' = now + 1
  /\ UNCHANGED <<fs, handles, call>>

(***************************************************************************)
(* logging.info(format, args...): the arguments are evaluated first, and   *)
(* an argument that raises ends the call; else one record is emitted.  The *)
(* frame keeps the message of each record emitted.                         *)
(***************************************************************************)
LogRecord(msg, args) ==
  LET bad == {i \in DOMAIN args : ~args[i].ok}
  IN  IF bad # {}
      THEN Raise(args[CHOOSE i \in bad : \A j \in bad : i <= j].exc)
      ELSE Ok(msg)

PipelineLog(msg, c, e_obj) ==
  LogRecord(msg,
    <<HumanizedBytes(Size(Len(c.s_obj[1]))), TimerReadable(c.tm_pickle)>>
    \o (IF c.compress
        THEN <<HumanizedBytes(Size(Len(c.c_obj[1]))),
               TimerReadable(c.tm_compress)>>
        ELSE <<>>)
    \o (IF c.key = Absent THEN <<>>
        ELSE <<HumanizedBytes(Size(Len(e_obj))), TimerReadable(c.tm_crypto)>>))

FileLog(msg, c) ==
  LogRecord(msg, <<Ok(c.file_path[1]), TimerReadable(c.tm_io)>>)

(***************************************************************************)
(* BinSerialize(obj, file_path, compress, key).  The call starts by        *)
(* entering the pickle Timer; each following step runs one `with` block    *)
(* to its end and enters the next.                                         *)
(***************************************************************************)
StartBinSerialize(p) ==
  /\ call[p].pc = "done"
  /\ \E obj \in Objects, file_path \in OptPaths, compress \in BOOLEAN,
        key \in CodecKeys :
       call' = [call EXCEPT ![p] =
                  [Frame("BinSerialize") EXCEPT
                     !.pc = "pickle", !.obj = obj, !.file_path = file_path,
                     !.compress = compress, !.key = key,
                     !.before = IF file_path = Absent THEN Absent
                                ELSE Some(fs[file_path[1]]),
                     !.tm_pickle = TimerEnter(Timer, now)]]
  /\ UNCHANGED <<now, fs, handles>>

PickleBlock(c) == PickleDumps(c.obj)

SerPickle(p) ==
  LET c == call[p]
      body == PickleBlock(c)
      out == TimerExit(c.tm_pickle, now, body)
      c1 == Blamed([c EXCEPT !.tm_pickle = TimerPartial(@, now),
                             !.trace = Append(@, "serialize")],
                   "serialize", body)
  IN  /\ c.op = "BinSerialize" /\ c.pc = "pickle"
      /\ call' = [call EXCEPT ![p] =
                    IF ~out.ok THEN Fail(c1, out.exc)
                    ELSE [c1 EXCEPT !.s_obj = Some(out.v), !.pc = "compress",
                                    !.tm_compress = TimerEnter(Timer, now)]]
      /\ UNCHANGED <<now, fs, handles>>

(* Faulty variant of CompressBlock: compresses whatever the flag.           *)
CompressBlock_Always(c) == Ok(Bz2Compress(c.s_obj[1]))

CompressBlock(c) ==
  IF c.compress THEN Ok(Bz2Compress(c.s_obj[1])) ELSE Ok(c.s_obj[1])

SerCompress(p) ==
  LET c == call[p]
      body == CompressBlock(c)
      out == TimerExit(c.tm_compress, now, body)
      c1 == Blamed([c EXCEPT !.tm_compress = TimerPartial(@, now),
                             !.trace = IF c.compress THEN Append(@, "compress")
                                       ELSE @],
                   "compress", body)
  IN  /\ c.op = "BinSerialize" /\ c.pc = "compress"
      /\ call' = [call EXCEPT ![p] =
                    IF ~out.ok THEN Fail(c1, out.exc)
                    ELSE [c1 EXCEPT !.c_obj = Some(out.v), !.pc = "crypto",
                                    !.tm_crypto = TimerEnter(Timer, now)]]
      /\ UNCHANGED <<now, fs, handles>>

(***************************************************************************)
(* The crypto block, the SERIALIZATION log record, and then either the     *)
(* return of e_obj or the entry of the save Timer.                         *)
(***************************************************************************)
SerAfterCrypto(c, e_obj) ==
  LET log == PipelineLog("SERIALIZATION", c, e_obj)
      c1 == [c EXCEPT !.e_obj = Some(e_obj)]
  IN  IF ~log.ok THEN Fail(c1, log.exc)
      ELSE LET c2 == [c1 EXCEPT !.logs = Append(@, log.v)]
           IN  IF c.file_path = Absent THEN Return(c2, e_obj)
               ELSE [c2 EXCEPT !.pc = "open", !.tm_io = TimerEnter(Timer, now)]

(* Faulty variant of CryptoBlock: encrypts s_obj, not c_obj.                *)
CryptoBlock_Serial(c, ts, iv) ==
  IF c.key = Absent THEN Ok(c.c_obj[1])
  ELSE Encrypt(c.s_obj[1], c.key[1], ts, iv)

CryptoBlock(c, ts, iv) ==
  IF c.key = Absent THEN Ok(c.c_obj[1])
  ELSE Encrypt(c.c_obj[1], c.key[1], ts, iv)

(* Faulty variant of SerCryptoEnd: a failed block is passed over.           *)
SerCryptoEnd_Ignored(c, out) ==
  SerAfterCrypto(c, IF out.ok THEN out.v ELSE c.c_obj[1])

(***************************************************************************)
(* An exception leaving a block ends the call.                             *)
(***************************************************************************)
SerCryptoEnd(c, out) ==
  IF ~out.ok THEN Fail(c, out.exc) ELSE SerAfterCrypto(c, out.v)

SerCrypto(p) ==
  LET c == call[p]
  IN  /\ c.op = "BinSerialize" /\ c.pc = "crypto"
      /\ \E iv \in Nonces :
           LET body == CryptoBlock(c, now, iv)
               out == TimerExit(c.tm_crypto, now, body)
               c1 == Blamed([c EXCEPT !.tm_crypto = TimerPartial(@, now),
                                      !.trace = IF c.key = Absent THEN @
                                                ELSE Append(@, "encrypt")],
                            "encrypt", body)
           IN  call' = [call EXCEPT ![p] = SerCryptoEnd(c1, out)]
      /\ UNCHANGED <<now, fs, handles>>

(***************************************************************************)
(* The save: open(file_path, 'wb'), write(e_obj), and the end of the two   *)
(* `with` blocks, which closes the file, stops the save Timer, logs and    *)
(* returns e_obj.  A write may fail before or after the first byte has      *)
(* reached the file; the `with open` block closes the file before the      *)
(* error goes on.                                                          *)
(***************************************************************************)
WriteLens(e_obj) == {n \in {0, 1, Len(e_obj)} : n <= Len(e_obj)}

(* Faulty variant of SaveFailed: the error is dropped, e_obj returned.      *)
SaveFailed_Ignored(c, exc) == Return(c, c.e_obj[1])

SaveFailed(c, exc) == Fail(c, exc)

SerOpen(p) ==
  LET c == call[p]
      path == c.file_path[1]
      body == IF fs[path].kind = "dir" THEN Raise("OSError") ELSE Ok(path)
      out == TimerExit(c.tm_io, now, body)
      c1 == Blamed([c EXCEPT !.trace = Append(@, "open")], "open", body)
  IN  /\ c.op = "BinSerialize" /\ c.pc = "open"
      /\ IF body.ok
         THEN /\ fs' = OpenTruncate(path)
              /\ handles' = handles \cup {Handle(p, path, "wb")}
              /\ call' = [call EXCEPT ![p] = [c1 EXCEPT !.pc = "write"]]
         ELSE /\ call' = [call EXCEPT ![p] =
                            SaveFailed([c1 EXCEPT !.tm_io =
                                          TimerPartial(@, now)], out.exc)]
              /\ UNCHANGED <<fs, handles>>
      /\ UNCHANGED now

SerWrite(p) ==
  LET c == call[p]
      path == c.file_path[1]
      e_obj == c.e_obj[1]
      c1 == [c EXCEPT !.trace = Append(@, "write")]
  IN  /\ c.op = "BinSerialize" /\ c.pc = "write"
      /\ \E n \in WriteLens(e_obj) :
           LET body == IF n = Len(e_obj) THEN Ok(n) ELSE Raise("OSError")
               out == TimerExit(c.tm_io, now, body)
           IN  /\ fs' = WriteBytes(path, SubSeq(e_obj, 1, n))
               /\ IF body.ok
                  THEN /\ call' = [call EXCEPT ![p] = [c1 EXCEPT !.pc = "close"]]
                       /\ UNCHANGED handles
                  ELSE /\ call' = [call EXCEPT ![p] =
                                     SaveFailed(
                                       Blamed([c1 EXCEPT !.tm_io =
                                                 TimerPartial(@, now)],
                                              "write", body), out.exc)]
                       /\ handles' = CloseFile(p, path, "wb", body)
      /\ UNCHANGED now

SerClose(p) ==
  LET c == call[p]
      path == c.file_path[1]
      out == TimerExit(c.tm_io, now, Ok(c.e_obj[1]))
      c1 == [c EXCEPT !.tm_io = TimerPartial(@, now),
                      !.trace = Append(@, "close")]
      log == FileLog("Bin file saved", c1)
  IN  /\ c.op = "BinSerialize" /\ c.pc = "close"
      /\ handles' = CloseFile(p, path, "wb", Ok(c.e_obj[1]))
      /\ call' = [call EXCEPT ![p] =
                    IF ~out.ok THEN Fail(c1, out.exc)
                    ELSE IF ~log.ok THEN Fail(c1, log.exc)
                    ELSE Return([c1 EXCEPT !.logs = Append(@, log.v)],
                                c.e_obj[1])]
      /\ UNCHANGED <<now, fs>>

(***************************************************************************)
(* What a caller passes as `data`: nothing, empty bytes, or the bytes its   *)
(* previous BinSerialize call returned; origin then remembers that call.   *)
(***************************************************************************)
Given(data, origin) == [data |-> data, origin |-> origin]

DataChoices(prev) ==
  {Given(Absent, Absent), Given(Some(<<>>), Absent)}
  \cup (IF prev.op = "BinSerialize" /\ prev.ret # Absent /\ prev.ret[1].ok
        THEN {Given(Some(prev.ret[1].v),
                    Some([obj |-> prev.obj, compress |-> prev.compress,
                          key |-> prev.key]))}
        ELSE {})

(***************************************************************************)
(* BinDeSerialize(data, file_path, compress, key).  The start of the call  *)
(* chooses the source of e_obj: with no file_path, no data returns None    *)
(* at once and data becomes e_obj; with a file_path that does not exist    *)
(* the call raises Error, else the load Timer is entered.                  *)
(***************************************************************************)
(* Faulty variant of DeBegin: data, when given, wins over file_path.        *)
DeBegin_DataFirst(c) ==
  IF c.data # Absent
  THEN [c EXCEPT !.e_obj = c.data, !.pc = "decrypt",
                 !.tm_crypto = TimerEnter(Timer, now)]
  ELSE IF c.file_path = Absent THEN Return(c, None)
  ELSE IF ~Exists(c.file_path[1]) THEN Fail(c, "Error")
  ELSE [c EXCEPT !.pc = "open", !.tm_io = TimerEnter(Timer, now)]

(* Faulty variant of DeBegin: no data and no file_path is an Error.         *)
DeBegin_NothingIsError(c) ==
  IF c.file_path = Absent
  THEN IF c.data = Absent THEN Fail(c, "Error")
       ELSE [c EXCEPT !.e_obj = c.data, !.pc = "decrypt",
                      !.tm_crypto = TimerEnter(Timer, now)]
  ELSE IF ~Exists(c.file_path[1]) THEN Fail(c, "Error")
       ELSE [c EXCEPT !.pc = "open", !.tm_io = TimerEnter(Timer, now)]

(* Faulty variant of DeBegin: a missing file gives None.                    *)
DeBegin_MissingIsNone(c) ==
  IF c.file_path = Absent
  THEN IF c.data = Absent THEN Return(c, None)
       ELSE [c EXCEPT !.e_obj = c.data, !.pc = "decrypt",
                      !.tm_crypto = TimerEnter(Timer, now)]
  ELSE IF ~Exists(c.file_path[1]) THEN Return(c, None)
       ELSE [c EXCEPT !.pc = "open", !.tm_io = TimerEnter(Timer, now)]

DeBegin(c) ==
  IF c.file_path = Absent
  THEN IF c.data = Absent THEN Return(c, None)
       ELSE [c EXCEPT !.e_obj = c.data, !.pc = "decrypt",
                      !.tm_crypto = TimerEnter(Timer, now)]
  ELSE IF ~Exists(c.file_path[1]) THEN Fail(c, "Error")
       ELSE [c EXCEPT !.pc = "open", !.tm_io = TimerEnter(Timer, now)]

StartBinDeSerialize(p) ==
  /\ call[p].pc = "done"
  /\ \E given \in DataChoices(call[p]), file_path \in OptPaths,
        compress \in BOOLEAN, key \in CodecKeys :
       call' = [call EXCEPT ![p] =
                  DeBegin([Frame("BinDeSerialize") EXCEPT
                             !.data = given.data, !.origin = given.origin,
                             !.file_path = file_path, !.compress = compress,
                             !.key = key,
                             !.before = IF file_path = Absent THEN Absent
                                        ELSE Some(fs[file_path[1]])])]
  /\ UNCHANGED <<now, fs, handles>>

(***************************************************************************)
(* The load: open(file_path, 'rb'), then read(), the end of the two        *)
(* `with` blocks, the 'Read bin file' log record and the entry of the      *)
(* crypto Timer.  read() may fail with an I/O error.                       *)
(***************************************************************************)
DeOpen(p) ==
  LET c == call[p]
      path == c.file_path[1]
      body == IF fs[path].kind = "file" THEN Ok(path) ELSE Raise("OSError")
      out == TimerExit(c.tm_io, now, body)
      c1 == Blamed([c EXCEPT !.trace = Append(@, "open")], "open", body)
  IN  /\ c.op = "BinDeSerialize" /\ c.pc = "open"
      /\ IF body.ok
         THEN /\ handles' = handles \cup {Handle(p, path, "rb")}
              /\ call' = [call EXCEPT ![p] = [c1 EXCEPT !.pc = "read"]]
         ELSE /\ call' = [call EXCEPT ![p] =
                            Fail([c1 EXCEPT !.tm_io = TimerPartial(@, now)],
                                 out.exc)]
              /\ UNCHANGED handles
      /\ UNCHANGED <<now, fs>>

DeRead(p) ==
  LET c == call[p]
      path == c.file_path[1]
  IN  /\ c.op = "BinDeSerialize" /\ c.pc = "read"
      /\ \E readable \in BOOLEAN :
           LET body == IF readable THEN Ok(fs[path].bytes)
                       ELSE Raise("OSError")
               out == TimerExit(c.tm_io, now, body)
               c1 == Blamed([c EXCEPT !.tm_io = TimerPartial(@, now),
                                      !.trace = Append(@, "read")],
                            "read", body)
               log == FileLog("Read bin file", c1)
           IN  /\ handles' = CloseFile(p, path, "rb", body)
               /\ call' = [call EXCEPT ![p] =
                             IF ~out.ok THEN Fail(c1, out.exc)
                             ELSE IF ~log.ok THEN Fail(c1, log.exc)
                             ELSE [c1 EXCEPT
                                     !.e_obj = Some(out.v),
                                     !.logs = Append(@, log.v),
                                     !.pc = "decrypt",
                                     !.tm_crypto = TimerEnter(Timer, now)]]
      /\ UNCHANGED <<now, fs>>

(***************************************************************************)
(* The inverse pipeline: decrypt if key, decompress if compress, then      *)
(* pickle.loads, the DE-SERIALIZATION log record and the return of obj.    *)
(***************************************************************************)
DecryptBlock(c) ==
  IF c.key = Absent THEN Ok(c.e_obj[1]) ELSE Decrypt(c.e_obj[1], c.key[1])

DeDecrypt(p) ==
  LET c == call[p]
      body == DecryptBlock(c)
      out == TimerExit(c.tm_crypto, now, body)
      c1 == Blamed([c EXCEPT !.tm_crypto = TimerPartial(@, now),
                             !.trace = IF c.key = Absent THEN @
                                       ELSE Append(@, "decrypt")],
                   "decrypt", body)
  IN  /\ c.op = "BinDeSerialize" /\ c.pc = "decrypt"
      /\ call' = [call EXCEPT ![p] =
                    IF ~out.ok THEN Fail(c1, out.exc)
                    ELSE [c1 EXCEPT !.c_obj = Some(out.v), !.pc = "decompress",
                                    !.tm_compress = TimerEnter(Timer, now)]]
      /\ UNCHANGED <<now, fs, handles>>

DecompressBlock(c) ==
  IF c.compress THEN Bz2Decompress(c.c_obj[1]) ELSE Ok(c.c_obj[1])

DeDecompress(p) ==
  LET c == call[p]
      body == DecompressBlock(c)
      out == TimerExit(c.tm_compress, now, body)
      c1 == Blamed([c EXCEPT !.tm_compress = TimerPartial(@, now),
                             !.trace = IF c.compress
                                       THEN Append(@, "decompress") ELSE @],
                   "decompress", body)
  IN  /\ c.op = "BinDeSerialize" /\ c.pc = "decompress"
      /\ call' = [call EXCEPT ![p] =
                    IF ~out.ok THEN Fail(c1, out.exc)
                    ELSE [c1 EXCEPT !.s_obj = Some(out.v), !.pc = "unpickle",
                                    !.tm_pickle = TimerEnter(Timer, now)]]
      /\ UNCHANGED <<now, fs, handles>>

UnpickleBlock(c) == PickleLoads(c.s_obj[1])

DeUnpickle(p) ==
  LET c == call[p]
      body == UnpickleBlock(c)
      out == TimerExit(c.tm_pickle, now, body)
      c1 == Blamed([c EXCEPT !.tm_pickle = TimerPartial(@, now),
                             !.trace = Append(@, "deserialize")],
                   "deserialize", body)
      log == PipelineLog("DE-SERIALIZATION", c1, c.e_obj[1])
  IN  /\ c.op = "BinDeSerialize" /\ c.pc = "unpickle"
      /\ call' = [call EXCEPT ![p] =
                    IF ~out.ok THEN Fail(c1, out.exc)
                    ELSE IF ~log.ok THEN Fail(c1, log.exc)
                    ELSE Return([c1 EXCEPT !.obj = out.v,
                                           !.logs = Append(@, log.v)], out.v)]
      /\ UNCHANGED <<now, fs, handles>>

(***************************************************************************)
(* Direct calls of Encrypt and Decrypt.  The ciphertext handed to Decrypt  *)
(* is the token the previous Encrypt call returned, that token cut at      *)
(* either end, or that token with one byte changed; origin remembers the   *)
(* key and plaintext of the Encrypt call.  These calls, and the            *)
(* BlockEncoder256 constructor, neither read nor write a file: they are    *)
(* explored while no file has been written.                                *)
(***************************************************************************)
Pristine == \A path \in Paths : fs[path].kind # "file"

CallEncrypt(p) ==
  /\ call[p].pc = "done"
  /\ Pristine
  /\ \E plaintext \in Plaintexts, key \in CryptoKeys, iv \in Nonces :
       call' = [call EXCEPT ![p] =
                  [Frame("Encrypt") EXCEPT
                     !.data = Some(plaintext), !.key = Some(key),
                     !.ret = Some(Encrypt(plaintext, key, now, iv))]]
  /\ UNCHANGED <<now, fs, handles>>

Tampered(token) ==
  {[bytes |-> token, tamper |-> "none"]}
  \cup {[bytes |-> SubSeq(token, 1, Len(token) - n), tamper |-> "truncated"] :
          n \in 1..Len(token)}
  \cup {[bytes |-> SubSeq(token, n + 1, Len(token)), tamper |-> "truncated"] :
          n \in 1..Len(token)}
  \cup {[bytes |-> [token EXCEPT ![i] = (@ + d) % 256], tamper |-> "altered"] :
          i \in 1..Len(token), d \in {1, 128}}

CallDecrypt(p) ==
  LET prev == call[p]
  IN  /\ prev.pc = "done"
      /\ Pristine
      /\ prev.op = "Encrypt" /\ prev.ret[1].ok
      /\ \E given \in Tampered(prev.ret[1].v), key \in CryptoKeys :
           call' = [call EXCEPT ![p] =
                      [Frame("Decrypt") EXCEPT
                         !.data = Some(given.bytes), !.tamper = given.tamper,
                         !.origin = Some([obj |-> prev.data[1],
                                          compress |-> FALSE,
                                          key |-> prev.key]),
                         !.key = Some(key),
                         !.ret = Some(Decrypt(given.bytes, key))]]
      /\ UNCHANGED <<now, fs, handles>>

(***************************************************************************)
(* BlockEncoder256(key256): the key is raw bytes and must be 32 long.      *)
(***************************************************************************)
RawKeys ==
  {B64Decode(KeyForce).v, B64Decode(KeyLuke).v, <<97, 98, 99, 100>>}

(* Faulty variant of BlockEncoder256: short keys are let through.           *)
BlockEncoder256_AtMost(key256) ==
  IF Len(key256) > 32 THEN Raise("Error") ELSE Ok([cipher |-> key256])

BlockEncoder256(key256) ==
  IF Len(key256) # 32 THEN Raise("Error") ELSE Ok([cipher |-> key256])

NewBlockEncoder256(p) ==
  /\ call[p].pc = "done"
  /\ Pristine
  /\ \E key256 \in RawKeys :
       call' = [call EXCEPT ![p] =
                  [Frame("BlockEncoder256") EXCEPT
                     !.key = Some(key256),
                     !.ret = Some(BlockEncoder256(key256))]]
  /\ UNCHANGED <<now, fs, handles>>

(***************************************************************************)
(* AES-256 in ECB mode, as BlockEncoder256 uses it: a keyed bijection on   *)
(* 16-byte blocks, each block of the input transformed on its own, no IV,  *)
(* no padding.  encryptor().update(x) + finalize() raises ValueError when  *)
(* x is not a whole number of blocks.  Each call makes a new encryptor or  *)
(* decryptor; self._cipher is not changed by it.                           *)
(***************************************************************************)
Rot(i) == (i % 16) + 1

RotBack(j) == ((j + 14) % 16) + 1

AesEncrypt(key, block) ==
  [i \in 1..16 |-> (block[Rot(i)] + key[i] + key[i + 16]) % 256]

AesDecrypt(key, block) ==
  [j \in 1..16 |->
     (block[RotBack(j)] - key[RotBack(j)] - key[RotBack(j) + 16]) % 256]

BlockOf(data, i) ==
  SubSeq(data, 16 * ((i - 1) \div 16) + 1, 16 * ((i - 1) \div 16) + 16)

Encryptor(key, data) ==
  IF Len(data) % 16 # 0 THEN Raise("ValueError")
  ELSE Ok([i \in 1..Len(data) |->
             AesEncrypt(key, BlockOf(data, i))[((i - 1) % 16) + 1]])

Decryptor(key, data) ==
  IF Len(data) % 16 # 0 THEN Raise("ValueError")
  ELSE Ok([i \in 1..Len(data) |->
             AesDecrypt(key, BlockOf(data, i))[((i - 1) % 16) + 1]])

(* Faulty variant of EncryptBlock256: blocks up to 32 bytes are let in.    *)
EncryptBlock256_AtMost(self, plaintext256) ==
  IF Len(plaintext256) > 32 THEN Raise("Error")
  ELSE Encryptor(self.cipher, plaintext256)

EncryptBlock256(self, plaintext256) ==
  IF Len(plaintext256) # 32 THEN Raise("Error")
  ELSE Encryptor(self.cipher, plaintext256)

DecryptBlock256(self, ciphertext256) ==
  IF Len(ciphertext256) # 32 THEN Raise("Error")
  ELSE Decryptor(self.cipher, ciphertext256)

(* Faulty variant of AfterBlock: the cipher keeps state between calls.     *)
AfterBlock_Chained(self, out) ==
  IF out.ok /\ Len(out.v) = 32 THEN [cipher |-> out.v] ELSE self

(***************************************************************************)
(* The instance after a block call: the encryptor or decryptor is made for *)
(* the call and dropped, self._cipher stays as __init__ built it.          *)
(***************************************************************************)
AfterBlock(self, out) == self

(***************************************************************************)
(* bytes.fromhex and bytes.hex.  A str is a sequence of one-character      *)
(* strings.  fromhex skips spaces before a pair of digits, takes digits in *)
(* either case and raises ValueError on anything else, an odd digit        *)
(* included; hex writes lowercase.                                         *)
(***************************************************************************)
HexLower ==
  <<"0", "1", "2", "3", "4", "5", "6", "7", "8", "9",
    "a", "b", "c", "d", "e", "f">>

HexUpper ==
  <<"0", "1", "2", "3", "4", "5", "6", "7", "8", "9",
    "A", "B", "C", "D", "E", "F">>

IsHexDigit(ch) == \E i \in 1..16 : HexLower[i] = ch \/ HexUpper[i] = ch

HexValue(ch) == (CHOOSE i \in 1..16 : HexLower[i] = ch \/ HexUpper[i] = ch) - 1

NotSpace(ch) == ch # " "

Digits(text) == SelectSeq(text, NotSpace)

SplitPair(text) ==
  \E i \in 1..Len(text) :
    /\ text[i] # " "
    /\ Len(Digits(SubSeq(text, 1, i))) % 2 = 1
    /\ i < Len(text)
    /\ text[i + 1] = " "

FromHex(text) ==
  IF \/ Len(Digits(text)) % 2 = 1
     \/ \E i \in 1..Len(text) : text[i] # " " /\ ~IsHexDigit(text[i])
     \/ SplitPair(text)
  THEN Raise("ValueError")
  ELSE Ok([k \in 1..(Len(Digits(text)) \div 2) |->
             HexValue(Digits(text)[2 * k - 1]) * 16
             + HexValue(Digits(text)[2 * k])])

ToHex(bytes) ==
  [i \in 1..(2 * Len(bytes)) |->
     IF i % 2 = 1 THEN HexLower[(bytes[(i + 1) \div 2] \div 16) + 1]
     ELSE HexLower[(bytes[i \div 2] % 16) + 1]]

EncryptHexdigest256(self, plaintext_hexdigest) ==
  LET plain == FromHex(plaintext_hexdigest)
      block == IF plain.ok THEN EncryptBlock256(self, plain.v) ELSE plain
  IN  IF block.ok THEN Ok(ToHex(block.v)) ELSE block

(* Faulty variant of DecryptHexdigest256: it returns uppercase hex.        *)
DecryptHexdigest256_Upper(self, ciphertext_hexdigest) ==
  LET cipher == FromHex(ciphertext_hexdigest)
      block == IF cipher.ok THEN DecryptBlock256(self, cipher.v) ELSE cipher
  IN  IF block.ok
      THEN Ok([i \in 1..Len(ToHex(block.v)) |->
                 HexUpper[HexValue(ToHex(block.v)[i]) + 1]])
      ELSE block

DecryptHexdigest256(self, ciphertext_hexdigest) ==
  LET cipher == FromHex(ciphertext_hexdigest)
      block == IF cipher.ok THEN DecryptBlock256(self, cipher.v) ELSE cipher
  IN  IF block.ok THEN Ok(ToHex(block.v)) ELSE block

(***************************************************************************)
(* Calls of the block methods on one BlockEncoder256 instance.  The frame  *)
(* carries the instance in self and, in key, the key it was built from;    *)
(* a call may be given the result of the call before it.                   *)
(***************************************************************************)
Digest ==
  <<167, 113, 211, 189, 155, 67, 43, 114, 11, 43, 206, 189, 60, 70, 117, 214,
    210, 125, 88, 104, 197, 206, 5, 38, 23, 40, 236, 152, 68, 183, 138, 112>>

Blocks ==
  {Digest, [i \in 1..32 |-> 0], <<97, 98, 99, 100>>, SubSeq(Digest, 1, 16),
   Digest \o SubSeq(Digest, 1, 16)}

BlockOps ==
  {"EncryptBlock256", "DecryptBlock256",
   "EncryptHexdigest256", "DecryptHexdigest256"}

Encoder(c) ==
  IF c.op = "BlockEncoder256" /\ c.ret[1].ok THEN Some(c.ret[1].v)
  ELSE IF c.op \in BlockOps THEN c.self
  ELSE Absent

Earlier(prev, op) ==
  IF prev.op = op /\ prev.ret[1].ok THEN {prev.ret[1].v} ELSE {}

Inverse(op) ==
  CASE op = "EncryptBlock256" -> "DecryptBlock256"
    [] op = "DecryptBlock256" -> "EncryptBlock256"
    [] op = "EncryptHexdigest256" -> "DecryptHexdigest256"
    [] op = "DecryptHexdigest256" -> "EncryptHexdigest256"

BlockCall(prev, op, input, out) ==
  [Frame(op) EXCEPT
     !.data = Some(input), !.key = prev.key,
     !.self = Some(AfterBlock(Encoder(prev)[1], out)),
     !.origin = IF input \in Earlier(prev, Inverse(op))
                THEN Some([obj |-> prev.data[1], compress |-> FALSE,
                           key |-> prev.key])
                ELSE Absent,
     !.ret = Some(out)]

CallEncryptBlock256(p) ==
  LET prev == call[p]
  IN  /\ prev.pc = "done"
      /\ Encoder(prev) # Absent
      /\ \E plaintext256 \in Blocks \cup Earlier(prev, "DecryptBlock256") :
           call' = [call EXCEPT ![p] =
                      BlockCall(prev, "EncryptBlock256", plaintext256,
                                EncryptBlock256(Encoder(prev)[1],
                                                plaintext256))]
      /\ UNCHANGED <<now, fs, handles>>

CallDecryptBlock256(p) ==
  LET prev == call[p]
  IN  /\ prev.pc = "done"
      /\ Encoder(prev) # Absent
      /\ \E ciphertext256 \in Blocks \cup Earlier(prev, "EncryptBlock256") :
           call' = [call EXCEPT ![p] =
                      BlockCall(prev, "DecryptBlock256", ciphertext256,
                                DecryptBlock256(Encoder(prev)[1],
                                                ciphertext256))]
      /\ UNCHANGED <<now, fs, handles>>

(***************************************************************************)
(* Calls of the hex methods: the digest of the test in lowercase and in    *)
(* uppercase, 'abcd', 'abc', and a string of 64 characters that starts     *)
(* with a letter that is no hex digit.                                     *)
(***************************************************************************)
Upper(text) ==
  [i \in 1..Len(text) |->
     IF IsHexDigit(text[i]) THEN HexUpper[HexValue(text[i]) + 1] ELSE text[i]]

Hexdigests ==
  {ToHex(Digest), Upper(ToHex(Digest)), <<"a", "b", "c", "d">>,
   <<"a", "b", "c">>, [ToHex(Digest) EXCEPT ![1] = "g"]}

CallEncryptHexdigest256(p) ==
  LET prev == call[p]
  IN  /\ prev.pc = "done"
      /\ Encoder(prev) # Absent
      /\ \E plaintext_hexdigest \in
              Hexdigests \cup Earlier(prev, "DecryptHexdigest256") :
           call' = [call EXCEPT ![p] =
                      BlockCall(prev, "EncryptHexdigest256",
                                plaintext_hexdigest,
                                EncryptHexdigest256(Encoder(prev)[1],
                                                    plaintext_hexdigest))]
      /\ UNCHANGED <<now, fs, handles>>

CallDecryptHexdigest256(p) ==
  LET prev == call[p]
  IN  /\ prev.pc = "done"
      /\ Encoder(prev) # Absent
      /\ \E ciphertext_hexdigest \in
              Hexdigests \cup Earlier(prev, "EncryptHexdigest256") :
           call' = [call EXCEPT ![p] =
                      BlockCall(prev, "DecryptHexdigest256",
                                ciphertext_hexdigest,
                                DecryptHexdigest256(Encoder(prev)[1],
                                                    ciphertext_hexdigest))]
      /\ UNCHANGED <<now, fs, handles>>

(***************************************************************************)
(* DeriveKeyFromStaticPassword(str_password).  A str is a sequence of code *)
(* points, None is Absent.  `not s or not s.strip()` is true of None, of   *)
(* '' and of a str of whitespace only.  s.encode('utf-8') raises           *)
(* UnicodeEncodeError, a ValueError, on a surrogate code point.  PBKDF2 is *)
(* a fixed function from the bytes to 32 bytes: the test's value for       *)
(* 'luke', a mix of the bytes for the rest.                                *)
(***************************************************************************)
Whitespace ==
  {9, 10, 11, 12, 13, 28, 29, 30, 31, 32, 133, 160, 5760, 8232, 8233, 8239,
   8287, 12288} \cup (8192..8202)

RECURSIVE LStrip(_)
LStrip(text) ==
  IF text # <<>> /\ text[1] \in Whitespace THEN LStrip(Tail(text)) ELSE text

RECURSIVE RStrip(_)
RStrip(text) ==
  IF text # <<>> /\ Last(text) \in Whitespace
  THEN RStrip(SubSeq(text, 1, Len(text) - 1))
  ELSE text

Strip(text) == RStrip(LStrip(text))

Utf8Of(cp) ==
  IF cp < 128 THEN <<cp>>
  ELSE IF cp < 2048 THEN <<192 + (cp \div 64), 128 + (cp % 64)>>
  ELSE IF cp < 65536
       THEN <<224 + (cp \div 4096), 128 + ((cp \div 64) % 64),
              128 + (cp % 64)>>
  ELSE <<240 + (cp \div 262144), 128 + ((cp \div 4096) % 64),
         128 + ((cp \div 64) % 64), 128 + (cp % 64)>>

RECURSIVE Utf8Bytes(_)
Utf8Bytes(text) ==
  IF text = <<>> THEN <<>> ELSE Utf8Of(text[1]) \o Utf8Bytes(Tail(text))

Utf8Encode(text) ==
  IF \E i \in 1..Len(text) : text[i] \in 55296..57343
  THEN Raise("UnicodeEncodeError")
  ELSE Ok(Utf8Bytes(text))

Luke == <<108, 117, 107, 101>>

Pbkdf2(password) ==
  IF password = Luke THEN B64Decode(KeyLuke).v
  ELSE [i \in 1..32 |-> (MacFold(i, password) + i) % 256]

RECURSIVE B64Encode(_)
B64Encode(bytes) ==
  IF bytes = <<>> THEN <<>>
  ELSE LET n == Len(bytes)
           b1 == bytes[1]
           b2 == IF n > 1 THEN bytes[2] ELSE 0
           b3 == IF n > 2 THEN bytes[3] ELSE 0
       IN  <<b1 \div 4,
             ((b1 % 4) * 16) + (b2 \div 16),
             IF n > 1 THEN ((b2 % 16) * 4) + (b3 \div 64) ELSE 64,
             IF n > 2 THEN b3 % 64 ELSE 64>>
           \o B64Encode(SubSeq(bytes, 4, n))

EmptyPassword(str_password) ==
  \/ str_password = Absent
  \/ str_password[1] = <<>>
  \/ Strip(str_password[1]) = <<>>

(***************************************************************************)
(* The outcome of the call and the steps it went through.                  *)
(***************************************************************************)
DeriveKeyFromStaticPassword(str_password) ==
  IF EmptyPassword(str_password)
  THEN [out |-> Raise("Error"), trace |-> <<>>]
  ELSE LET encoded == Utf8Encode(str_password[1])
       IN  IF ~encoded.ok
           THEN [out |-> encoded, trace |-> <<"PBKDF2HMAC", "encode">>]
           ELSE [out |-> Ok(B64Encode(Pbkdf2(encoded.v))),
                 trace |-> <<"PBKDF2HMAC", "encode", "derive",
                             "urlsafe_b64encode">>]

Passwords ==
  {Absent, Some(<<>>), Some(<<32, 32, 10, 32>>), Some(<<8195>>), Some(Luke),
   Some(<<32, 97, 32>>), Some(<<233>>), Some(<<55296>>)}

CallDeriveKeyFromStaticPassword(p) ==
  /\ call[p].pc = "done"
  /\ \E str_password \in Passwords :
       LET r == DeriveKeyFromStaticPassword(str_password)
       IN  call' = [call EXCEPT ![p] =
                      [Frame("DeriveKeyFromStaticPassword") EXCEPT
                         !.data = str_password, !.trace = r.trace,
                         !.ret = Some(r.out)]]
  /\ UNCHANGED <<now, fs, handles>>

(***************************************************************************)
(* Calls of the three formatting functions, with inputs on both sides of   *)
(* every unit boundary, below zero, and some way past the last unit.       *)
(***************************************************************************)
Kb == Wide(0, 1024)

Mb == Wide(1, 0)

Gb == Wide(1024, 0)

Tb == Wide(1024 * 1024, 0)

Before(sz) == IF sz.r = 0 THEN Wide(sz.q - 1, 1024 * 1024 - 1)
              ELSE Wide(sz.q, sz.r - 1)

Sizes ==
  {Size(-1), Size(-1024), Size(0), Size(10), Before(Kb), Kb, Size(10000),
   Before(Mb), Mb, Size(10000000), Before(Gb), Gb, Before(Tb), Tb,
   Wide(1024 * 1024 * 1024, 0)}

CallHumanizedBytes(p) ==
  /\ call[p].pc = "done"
  /\ \E inp_sz \in Sizes :
       call' = [call EXCEPT ![p] =
                  [Frame("HumanizedBytes") EXCEPT
                     !.data = Some(inp_sz),
                     !.ret = Some(HumanizedBytes(inp_sz))]]
  /\ UNCHANGED <<now, fs, handles>>

Decimals == {-1, -1000, 0, 999, 1000, 999999, 1000000, 1000000000}

CallHumanizedDecimal(p) ==
  /\ call[p].pc = "done"
  /\ \E inp_sz \in Decimals :
       call' = [call EXCEPT ![p] =
                  [Frame("HumanizedDecimal") EXCEPT
                     !.data = Some(inp_sz),
                     !.ret = Some(HumanizedDecimal(inp_sz))]]
  /\ UNCHANGED <<now, fs, handles>>

Seconds == {-86400, -1, 0, 1, 59, 60, 3600, 86400}

CallHumanizedSeconds(p) ==
  /\ call[p].pc = "done"
  /\ \E inp_secs \in Seconds :
       call' = [call EXCEPT ![p] =
                  [Frame("HumanizedSeconds") EXCEPT
                     !.data = Some(inp_secs),
                     !.ret = Some(HumanizedSeconds(inp_secs))]]
  /\ UNCHANGED <<now, fs, handles>>

(***************************************************************************)
(* A Timer run by hand: tm = Timer(), `with tm:` entered and left once,    *)
(* tm.partial and tm.delta read at any point.  The frame holds the object  *)
(* in self, what was done to it in trace, and in ret the outcome of the    *)
(* last read or of leaving the block.  partial is read at most once before *)
(* the block, once inside and once after it.                               *)
(***************************************************************************)
Has(event, c) == \E i \in DOMAIN c.trace : c.trace[i] = event

Inside(c) == Has("enter", c) /\ ~Has("exit", c)

RECURSIVE Since(_)
Since(trace) ==
  IF trace = <<>> \/ Last(trace) \in {"enter", "exit"} THEN <<>>
  ELSE Append(Since(SubSeq(trace, 1, Len(trace) - 1)), Last(trace))

NewTimer(p) ==
  /\ call[p].pc = "done"
  /\ call' = [call EXCEPT ![p] = [Frame("Timer") EXCEPT !.self = Some(Timer)]]
  /\ UNCHANGED <<now, fs, handles>>

EnterTimer(p) ==
  LET c == call[p]
  IN  /\ c.op = "Timer"
      /\ ~Has("enter", c)
      /\ call' = [call EXCEPT ![p] =
                    [c EXCEPT !.self = Some(TimerEnter(c.self[1], now)),
                              !.trace = Append(@, "enter")]]
      /\ UNCHANGED <<now, fs, handles>>

ReadPartial(p) ==
  LET c == call[p]
      tm == TimerPartial(c.self[1], now)
  IN  /\ c.op = "Timer"
      /\ \A i \in DOMAIN Since(c.trace) : Since(c.trace)[i] # "partial"
      /\ call' = [call EXCEPT ![p] =
                    [c EXCEPT !.self = Some(tm),
                              !.ret = Some(TimerReadable(tm)),
                              !.trace = Append(@, "partial")]]
      /\ UNCHANGED <<now, fs, handles>>

ExitTimer(p) ==
  LET c == call[p]
      tm == c.self[1]
  IN  /\ c.op = "Timer"
      /\ Inside(c)
      /\ call' = [call EXCEPT ![p] =
                    [c EXCEPT !.self = Some(TimerPartial(tm, now)),
                              !.ret = Some(TimerExit(tm, now, Ok(None))),
                              !.trace = Append(@, "exit")]]
      /\ UNCHANGED <<now, fs, handles>>

ReadDelta(p) ==
  LET c == call[p]
  IN  /\ c.op = "Timer"
      /\ IF c.trace = <<>> THEN TRUE ELSE Last(c.trace) # "delta"
      /\ call' = [call EXCEPT ![p] =
                    [c EXCEPT !.ret = Some(TimerDelta(c.self[1])),
                              !.trace = Append(@, "delta")]]
      /\ UNCHANGED <<now, fs, handles>>

(***************************************************************************)
(* One thread calls the library, one call after the other.                 *)
(***************************************************************************)
Step(p) ==
  \/ StartBinSerialize(p)
  \/ SerPickle(p)
  \/ SerCompress(p)
  \/ SerCrypto(p)
  \/ SerOpen(p)
  \/ SerWrite(p)
  \/ SerClose(p)
  \/ StartBinDeSerialize(p)
  \/ DeOpen(p)
  \/ DeRead(p)
  \/ DeDecrypt(p)
  \/ DeDecompress(p)
  \/ DeUnpickle(p)
  \/ CallEncrypt(p)
  \/ CallDecrypt(p)
  \/ NewBlockEncoder256(p)

Next == Tick \/ Step("main")

Spec == Init /\ [][Next]_vars

(***************************************************************************)
(* The same thread under a wall clock that may also be set back between    *)
(* any two steps: time.time() is not monotonic.                            *)
(* The calls followed under this clock are the ones without a key.         *)
(***************************************************************************)
ClockStep ==
  /\ \E t \in 1..MaxTime : t < now /\ now' = t
  /\ UNCHANGED <<fs, handles, call>>

CodecStep(p) ==
  \/ StartBinSerialize(p)
  \/ SerPickle(p)
  \/ SerCompress(p)
  \/ SerCrypto(p)
  \/ SerOpen(p)
  \/ SerWrite(p)
  \/ SerClose(p)
  \/ StartBinDeSerialize(p)
  \/ DeOpen(p)
  \/ DeRead(p)
  \/ DeDecrypt(p)
  \/ DeDecompress(p)
  \/ DeUnpickle(p)

NoKey == \A p \in Procs : call[p].key = Absent

NextSkew == Tick \/ ClockStep \/ (CodecStep("main") /\ NoKey')

SpecSkew == Init /\ [][NextSkew]_vars

(***************************************************************************)
(* Two threads that call BinSerialize at the same time, each step of one   *)
(* call interleaved with the steps of the other.  The calls followed are   *)
(* the ones without a key and without compression that save to "f".        *)
(***************************************************************************)
SaveStep(p) ==
  \/ StartBinSerialize(p)
  \/ SerPickle(p)
  \/ SerCompress(p)
  \/ SerCrypto(p)
  \/ SerOpen(p)
  \/ SerWrite(p)
  \/ SerClose(p)

SameFile ==
  \A p \in Procs :
    call[p].op = "BinSerialize" =>
      call[p].file_path = Some("f") /\ ~call[p].compress

NextRace == \E p \in Procs : SaveStep(p) /\ NoKey' /\ SameFile'

SpecRace == Init /\ [][NextRace]_vars

(***************************************************************************)
(* The library without the files: one thread makes the key, builds block   *)
(* encoders and calls them, formats numbers and runs a Timer by hand.      *)
(***************************************************************************)
LibStep(p) ==
  \/ NewBlockEncoder256(p)
  \/ CallEncryptBlock256(p)
  \/ CallDecryptBlock256(p)
  \/ CallEncryptHexdigest256(p)
  \/ CallDecryptHexdigest256(p)
  \/ CallDeriveKeyFromStaticPassword(p)
  \/ CallHumanizedBytes(p)
  \/ CallHumanizedDecimal(p)
  \/ CallHumanizedSeconds(p)
  \/ NewTimer(p)
  \/ EnterTimer(p)
  \/ ReadPartial(p)
  \/ ExitTimer(p)
  \/ ReadDelta(p)

NextLib == Tick \/ ClockStep \/ LibStep("main")

SpecLib == Init /\ [][NextLib]_vars

(***************************************************************************)
(* Vocabulary of the properties.                                           *)
(***************************************************************************)
Done(c) == c.pc = "done" /\ c.ret # Absent

Returned(c) == Done(c) /\ c.ret[1].ok

Raised(c) == Done(c) /\ ~c.ret[1].ok

IsPrefix(s, t) == Len(s) <= Len(t) /\ SubSeq(t, 1, Len(s)) = s

NoRepeat(s) == \A i, j \in DOMAIN s : s[i] = s[j] => i = j

Occurs(x, s) == \E i \in DOMAIN s : s[i] = x

PipelineStages ==
  {"serialize", "compress", "encrypt", "decrypt", "decompress", "deserialize"}

IsPipelineStage(x) == x \in PipelineStages

Transforms(c) == SelectSeq(c.trace, IsPipelineStage)

(***************************************************************************)
(* C1.  Round trip: a BinDeSerialize call on the bytes that a BinSerialize *)
(* call returned for a value v, with no file_path and with the same        *)
(* compress flag and the same key (absent, or a valid 32-byte key),        *)
(* returns a value equal to v.                                             *)
(***************************************************************************)
IsRoundTrip(c) ==
  /\ c.op = "BinDeSerialize" /\ c.pc = "done"
  /\ c.file_path = Absent /\ c.origin # Absent
  /\ c.compress = c.origin[1].compress /\ c.key = c.origin[1].key

C1_RoundTrip ==
  \A p \in Procs :
    IsRoundTrip(call[p]) => call[p].ret = Some(Ok(call[p].origin[1].obj))

C1_Witness ==
  \E p \in Procs :
    /\ IsRoundTrip(call[p]) /\ call[p].compress
    /\ call[p].key = Some(KeyForce)
    /\ call[p].ret = Some(Ok(PyTuple(PyInt(7), None)))

(***************************************************************************)
(* C2.  Stage order: in every BinSerialize call the transforming stages    *)
(* run as serialize, then compress iff compress is true, then encrypt iff  *)
(* a key is given; in every BinDeSerialize call as decrypt iff a key is    *)
(* given, then decompress iff compress is true, then deserialize.  At each *)
(* moment the stages run so far are a prefix of that order, a call that    *)
(* went through its pipeline ran exactly that order, and a disabled stage  *)
(* hands its input on unchanged.                                           *)
(***************************************************************************)
StageOrder(c) ==
  IF c.op = "BinSerialize"
  THEN <<"serialize">>
       \o (IF c.compress THEN <<"compress">> ELSE <<>>)
       \o (IF c.key # Absent THEN <<"encrypt">> ELSE <<>>)
  ELSE (IF c.key # Absent THEN <<"decrypt">> ELSE <<>>)
       \o (IF c.compress THEN <<"decompress">> ELSE <<>>)
       \o <<"deserialize">>

PassThrough(c) ==
  IF c.op = "BinSerialize"
  THEN /\ (c.c_obj # Absent /\ ~c.compress) => c.c_obj = c.s_obj
       /\ (c.e_obj # Absent /\ c.key = Absent) => c.e_obj = c.c_obj
  ELSE /\ (c.c_obj # Absent /\ c.key = Absent) => c.c_obj = c.e_obj
       /\ (c.s_obj # Absent /\ ~c.compress) => c.s_obj = c.c_obj

WentThrough(c) ==
  IF c.op = "BinSerialize" THEN c.e_obj # Absent
  ELSE Occurs("deserialize", c.trace)

C2_StageOrder ==
  \A p \in Procs :
    LET c == call[p]
    IN  c.op \in {"BinSerialize", "BinDeSerialize"} =>
          /\ IsPrefix(Transforms(c), StageOrder(c))
          /\ WentThrough(c) => Transforms(c) = StageOrder(c)
          /\ PassThrough(c)

C2_Witness ==
  \E p \in Procs :
    LET c == call[p]
    IN  /\ c.op = "BinDeSerialize" /\ Returned(c)
        /\ c.compress /\ c.key = Some(KeyForce)
        /\ Transforms(c) = <<"decrypt", "decompress", "deserialize">>
        /\ c.c_obj # c.e_obj /\ c.s_obj # c.c_obj

(***************************************************************************)
(* C3.  Hard stop on failure: when the block of a stage of BinSerialize    *)
(* or BinDeSerialize raises, the call is over: that stage is the last one  *)
(* that ran, no stage ran twice, and the call raises that stage's          *)
(* exception instead of returning.  A BinSerialize call that fails in      *)
(* serialize, compress or encrypt has not opened the destination, holds no *)
(* handle on it, and has left the path as it was when the call began.      *)
(***************************************************************************)
FailedStage(c) == c.failed[1][1]

FailedError(c) == c.failed[1][2]

Untouched(p, c) ==
  c.file_path # Absent =>
    /\ ~Occurs("open", c.trace)
    /\ fs[c.file_path[1]] = c.before[1]
    /\ \A h \in handles : h.proc # p

ValidKey(key) == BinaryFernet(key).ok

Forged(c) ==
  \/ c.tamper \in {"truncated", "altered"}
  \/ c.key # c.origin[1].key

C4_FailClosed ==
  \A p \in Procs :
    LET c == call[p]
    IN  (c.op = "Decrypt" /\ Forged(c)) =>
          /\ Raised(c)
          /\ ValidKey(c.key[1]) => c.ret = Some(Raise("InvalidToken"))

C4_Witness ==
  \E p \in Procs :
    LET c == call[p]
    IN  /\ c.op = "Decrypt" /\ c.tamper = "truncated"
        /\ c.key = Some(KeyForce) /\ c.origin[1].key = Some(KeyForce)
        /\ Len(c.data[1]) > 5
        /\ c.ret = Some(Raise("InvalidToken"))

(***************************************************************************)
(* C5.  Key length.  As stated: every call that is given a key whose       *)
(* material is not exactly 32 bytes fails, before the key is used.  A      *)
(* BinDeSerialize call with neither data nor file_path returns None        *)
(* whatever the key.                                                       *)
(***************************************************************************)
KeyMaterial(c) ==
  IF c.op = "BlockEncoder256" THEN Ok(c.key[1]) ELSE B64Decode(c.key[1])

BadKey(c) ==
  /\ c.op \in {"BlockEncoder256", "Encrypt", "Decrypt", "BinSerialize",
               "BinDeSerialize"}
  /\ c.key # Absent
  /\ ~KeyMaterial(c).ok \/ Len(KeyMaterial(c).v) # 32

C5_AsStated ==
  \A p \in Procs : (BadKey(call[p]) /\ call[p].pc = "done") => Raised(call[p])

(***************************************************************************)
(* C5, amended.  Every call that is given a key whose material is not      *)
(* exactly 32 bytes, other than a BinDeSerialize call with neither data    *)
(* nor file_path, fails, and the key is not used: the call never returns,  *)
(* BinSerialize produces no e_obj and neither opens nor changes the        *)
(* destination, and BinDeSerialize produces no c_obj.                      *)
(***************************************************************************)
NoSource(c) ==
  c.op = "BinDeSerialize" /\ c.data = Absent /\ c.file_path = Absent

C5_KeyLength ==
  \A p \in Procs :
    LET c == call[p]
    IN  (BadKey(c) /\ ~NoSource(c)) =>
          /\ c.pc = "done" => Raised(c)
          /\ c.op = "BinSerialize" => c.e_obj = Absent /\ Untouched(p, c)
          /\ c.op = "BinDeSerialize" => c.c_obj = Absent

C5_Witness ==
  \E p \in Procs :
    LET c == call[p]
    IN  /\ c.op = "BinSerialize" /\ c.key = Some(KeyCut)
        /\ c.trace = <<"serialize", "compress", "encrypt">>
        /\ c.file_path = Some("f") /\ c.before[1].kind = "file"
        /\ c.ret = Some(Raise("ValueError"))

(***************************************************************************)
(* C6.  With a file_path, BinDeSerialize ignores data: the bytes it works  *)
(* on are the bytes stored at the path, and its outcome is what the path's *)
(* content, compress and key determine, whatever data is; a read() that    *)
(* fails with an I/O error ends the call with that error.                  *)
(***************************************************************************)
FromBytes(e_obj, compress, key) ==
  LET c_obj == IF key = Absent THEN Ok(e_obj) ELSE Decrypt(e_obj, key[1])
      s_obj == IF ~c_obj.ok THEN c_obj
               ELSE IF compress THEN Bz2Decompress(c_obj.v) ELSE c_obj
  IN  IF ~s_obj.ok THEN s_obj ELSE PickleLoads(s_obj.v)

FromPath(stored, compress, key) ==
  IF stored.kind = "absent" THEN Raise("Error")
  ELSE IF stored.kind = "dir" THEN Raise("OSError")
  ELSE FromBytes(stored.bytes, compress, key)

C6_DataIgnored ==
  \A p \in Procs :
    LET c == call[p]
    IN  (c.op = "BinDeSerialize" /\ c.file_path # Absent) =>
          /\ c.e_obj # Absent => c.e_obj = Some(fs[c.file_path[1]].bytes)
          /\ c.pc = "done" =>
               IF c.failed = Some(<<"read", "OSError">>)
               THEN c.ret = Some(Raise("OSError"))
               ELSE c.ret = Some(FromPath(fs[c.file_path[1]], c.compress,
                                          c.key))

C6_Witness ==
  \E p \in Procs :
    LET c == call[p]
    IN  /\ c.op = "BinDeSerialize" /\ c.file_path = Some("f")
        /\ c.origin # Absent /\ c.origin[1].obj = PyInt(7)
        /\ c.compress = c.origin[1].compress /\ c.key = c.origin[1].key
        /\ c.data # Some(fs["f"].bytes)
        /\ c.ret = Some(Ok(PyTuple(PyInt(7), None)))

(***************************************************************************)
(* C7.  With neither data nor file_path, BinDeSerialize returns None for   *)
(* every compress and key, and does nothing else: no stage runs, no file   *)
(* is read, no bytes are decrypted, decompressed or unpickled, and no log  *)
(* record is written.                                                      *)
(***************************************************************************)
C7_NothingGiven ==
  \A p \in Procs :
    LET c == call[p]
    IN  NoSource(c) =>
          /\ c.pc = "done" /\ c.ret = Some(Ok(None))
          /\ c.trace = <<>> /\ c.logs = <<>>
          /\ c.e_obj = Absent /\ c.c_obj = Absent /\ c.s_obj = Absent
          /\ \A h \in handles : h.proc # p

C7_Witness ==
  \E p \in Procs :
    LET c == call[p]
    IN  /\ NoSource(c) /\ c.compress /\ c.key = Some(KeyForce)
        /\ Returned(c) /\ c.ret[1].v = None

C9_ReturnsAndStores ==
  \A p \in Procs :
    LET c == call[p]
    IN  (c.op = "BinSerialize" /\ Returned(c)) =>
          /\ c.e_obj = Some(c.ret[1].v)
          /\ FromBytes(c.ret[1].v, c.compress, c.key) = Ok(c.obj)
          /\ IF c.file_path = Absent THEN ~Occurs("open", c.trace)
             ELSE fs[c.file_path[1]] = File(c.ret[1].v)

C9_Witness ==
  \E p \in Procs :
    LET c == call[p]
    IN  /\ c.op = "BinSerialize" /\ Returned(c)
        /\ c.file_path = Some("f") /\ c.before[1].kind = "file"
        /\ Len(c.before[1].bytes) > Len(c.ret[1].v)
        /\ fs["f"].bytes = c.ret[1].v

Missing(c) ==
  c.op = "BinDeSerialize" /\ c.file_path # Absent
  /\ c.before[1].kind = "absent"

NoStageFailed(c) ==
  /\ c.op \in {"BinSerialize", "BinDeSerialize"}
  /\ c.pc = "done" /\ c.failed = Absent /\ ~Missing(c)

C11_LogNeverFatal ==
  \A p \in Procs : NoStageFailed(call[p]) => Returned(call[p])

(***************************************************************************)
(* C12.  Guaranteed release: a file handle is open only between the open   *)
(* and the end of the save or load block of the call that opened it; when  *)
(* a BinSerialize or BinDeSerialize call is over, by return or by error,   *)
(* a failed write or read included, it holds no open handle.               *)
(***************************************************************************)
Holds(p) == {h \in handles : h.proc = p}

C12_HandlesReleased ==
  \A p \in Procs :
    LET c == call[p]
    IN  /\ c.pc = "done" => Holds(p) = {}
        /\ Holds(p) # {} =>
             /\ c.pc \in {"write", "close", "read"}
             /\ Holds(p) = {Handle(p, c.file_path[1],
                                   IF c.op = "BinSerialize" THEN "wb"
                                   ELSE "rb")}

C12_Witness ==
  \E p \in Procs :
    LET c == call[p]
    IN  /\ c.op = "BinDeSerialize" /\ c.failed = Some(<<"read", "OSError">>)
        /\ Raised(c) /\ Occurs("open", c.trace)
        /\ handles = {}

(***************************************************************************)
(* C13.  Last writer wins: when two BinSerialize calls to the same path    *)
(* have both returned, the path holds exactly the bytes that one of them   *)
(* returned, never a mixture, and these bytes decode with that call's      *)
(* flags.                                                                  *)
(***************************************************************************)
BothSaved ==
  /\ \A p \in Procs : call[p].op = "BinSerialize" /\ Returned(call[p])
  /\ call["main"].file_path = call["peer"].file_path

C13_LastWriterWins ==
  BothSaved =>
    \E p \in Procs :
      /\ fs[call[p].file_path[1]] = File(call[p].ret[1].v)
      /\ FromBytes(fs[call[p].file_path[1]].bytes, call[p].compress,
                   call[p].key) = Ok(call[p].obj)

(***************************************************************************)
(* C14: EncryptBlock256 and DecryptBlock256 succeed exactly when the input *)
(* is 32 bytes long, whatever the bytes are, and then return 32 bytes; an  *)
(* input of any other length is refused with Error.                        *)
(***************************************************************************)
IsBlockCall(c) == c.op \in {"EncryptBlock256", "DecryptBlock256"} /\ Done(c)

C14_BlockLength ==
  \A p \in Procs :
    LET c == call[p]
    IN  IsBlockCall(c) =>
          IF Len(c.data[1]) = 32
          THEN Returned(c) /\ Len(c.ret[1].v) = 32
          ELSE c.ret = Some(Raise("Error"))

C14_Witness ==
  LET c == call["main"]
  IN  /\ c.op = "DecryptBlock256"
      /\ c.data = Some([i \in 1..32 |-> 0])
      /\ Returned(c)
      /\ Len(c.ret[1].v) = 32

(***************************************************************************)
(* C15: on one BlockEncoder256 instance DecryptBlock256 gives back the     *)
(* block that EncryptBlock256 was given, and the result of either method   *)
(* is the one a new instance of the same key gives for the same input,     *)
(* whatever calls the instance served before.                              *)
(***************************************************************************)
Fresh(c) == BlockEncoder256(c.key[1]).v

C15_BlockRoundTrip ==
  \A p \in Procs :
    LET c == call[p]
    IN  /\ IsBlockCall(c) /\ c.op = "DecryptBlock256" /\ c.origin # Absent
             => c.ret = Some(Ok(c.origin[1].obj))
        /\ IsBlockCall(c) /\ c.op = "EncryptBlock256"
             => c.ret = Some(EncryptBlock256(Fresh(c), c.data[1]))
        /\ IsBlockCall(c) /\ c.op = "DecryptBlock256"
             => c.ret = Some(DecryptBlock256(Fresh(c), c.data[1]))

C15_Witness ==
  LET c == call["main"]
  IN  /\ c.op = "DecryptBlock256"
      /\ c.origin # Absent
      /\ c.ret = Some(Ok(Digest))
      /\ c.data # Some(Digest)

(***************************************************************************)
(* C16: given 64 lowercase hex digits, EncryptHexdigest256 and             *)
(* DecryptHexdigest256 return 64 lowercase hex digits, the hex form of the *)
(* block method's result on the decoded bytes, and decrypting what was     *)
(* encrypted gives the input back; hex that decodes to another length is   *)
(* refused with Error, and text that is not hex with ValueError.           *)
(***************************************************************************)
IsHexCall(c) ==
  c.op \in {"EncryptHexdigest256", "DecryptHexdigest256"} /\ Done(c)

IsLowerHex(text) ==
  \A i \in 1..Len(text) : \E d \in 1..16 : HexLower[d] = text[i]

Digest256(text) == Len(text) = 64 /\ IsLowerHex(text)

OnBlock(c, bytes) ==
  IF c.op = "EncryptHexdigest256" THEN EncryptBlock256(Fresh(c), bytes)
  ELSE DecryptBlock256(Fresh(c), bytes)

C16_Hexdigest ==
  \A p \in Procs :
    LET c == call[p]
        decoded == FromHex(c.data[1])
    IN  IsHexCall(c) =>
          /\ Digest256(c.data[1]) =>
               /\ Returned(c)
               /\ Digest256(c.ret[1].v)
               /\ decoded.ok
               /\ c.ret[1].v = ToHex(OnBlock(c, decoded.v).v)
          /\ c.op = "DecryptHexdigest256" /\ c.origin # Absent
               /\ Digest256(c.origin[1].obj)
               => c.ret = Some(Ok(c.origin[1].obj))
          /\ decoded.ok /\ Len(decoded.v) # 32
               => c.ret = Some(Raise("Error"))
          /\ ~decoded.ok => c.ret = Some(Raise("ValueError"))

C16_Witness ==
  LET c == call["main"]
  IN  /\ c.op = "DecryptHexdigest256"
      /\ c.origin # Absent
      /\ c.ret = Some(Ok(ToHex(Digest)))
      /\ Digest256(c.data[1])
      /\ c.data # Some(ToHex(Digest))

(***************************************************************************)
(* C17: DeriveKeyFromStaticPassword raises Error exactly for a password    *)
(* that is None, empty or all whitespace, and then derives nothing; for    *)
(* every other password it returns a key.                                  *)
(***************************************************************************)
IsDeriveCall(c) == c.op = "DeriveKeyFromStaticPassword" /\ Done(c)

Blank(str_password) ==
  \/ str_password = Absent
  \/ \A i \in 1..Len(str_password[1]) : str_password[1][i] \in Whitespace

C17_EmptyPasswordOnly ==
  \A p \in Procs :
    LET c == call[p]
    IN  IsDeriveCall(c) =>
          IF Blank(c.data)
          THEN c.ret = Some(Raise("Error")) /\ ~Occurs("derive", c.trace)
          ELSE Returned(c) /\ Len(c.ret[1].v) = 44

(***************************************************************************)
(* C18: for a size of zero or more HumanizedBytes prints the exact number  *)
(* and 'b' below 1024, and above that takes the unit in steps of 1024:     *)
(* 'kb' from 1024, 'Mb' from 1024^2, 'Gb' from 1024^3, and 'Tb' from       *)
(* 1024^4 on without end; 1024 itself is '1.00kb'.                         *)
(***************************************************************************)
Below(a, b) == a.q < b.q \/ (a.q = b.q /\ a.r < b.r)

UnitOf(sz) ==
  IF Below(sz, Kb) THEN "b"
  ELSE IF Below(sz, Mb) THEN "kb"
  ELSE IF Below(sz, Gb) THEN "Mb"
  ELSE IF Below(sz, Tb) THEN "Gb"
  ELSE "Tb"

C18_UnitSteps ==
  \A p \in Procs :
    LET c == call[p]
    IN  c.op = "HumanizedBytes" /\ Done(c) /\ ~Below(c.data[1], Size(0)) =>
          /\ Returned(c)
          /\ c.ret[1].v[2] = UnitOf(c.data[1])
          /\ Below(c.data[1], Kb) => c.ret[1].v[1] = c.data[1].r
          /\ c.data[1] \in {Kb, Mb, Gb, Tb} => c.ret[1].v[1] = 100

C18_Witness ==
  LET c == call["main"]
  IN  /\ c.op = "HumanizedBytes"
      /\ c.data = Some(Tb)
      /\ c.ret = Some(Ok(<<100, "Tb">>))

(***************************************************************************)
(* C19: given a number below zero, HumanizedBytes, HumanizedDecimal and    *)
(* HumanizedSeconds each raise the library's Error and return no string.   *)
(***************************************************************************)
NegativeInput(c) ==
  /\ Done(c)
  /\ \/ c.op = "HumanizedBytes" /\ Below(c.data[1], Size(0))
     \/ c.op \in {"HumanizedDecimal", "HumanizedSeconds"} /\ c.data[1] < 0

C19_NegativeIsError ==
  \A p \in Procs :
    NegativeInput(call[p]) => call[p].ret = Some(Raise("Error"))

(***************************************************************************)
(* C20, as stated: Timer.delta raises Error whenever no end time is        *)
(* stored, and returns end minus start in every state after the block was  *)
(* left or partial was read.                                               *)
(***************************************************************************)
DeltaRead(c) == c.op = "Timer" /\ c.trace # <<>> /\ Last(c.trace) = "delta"

DeltaGiven(c) ==
  /\ c.ret # Absent /\ c.ret[1].ok
  /\ c.self[1].start # Absent /\ c.self[1].end # Absent
  /\ c.ret[1].v = c.self[1].end[1] - c.self[1].start[1]

PartialInside(c) ==
  \E i, j \in DOMAIN c.trace :
    i < j /\ c.trace[i] = "enter" /\ c.trace[j] = "partial"

====
